---- MODULE Spec2Model ----
(***************************************************************************)
(* Model of the weight-monitoring web application (src/웹코드.py).           *)
(*                                                                         *)
(* Weights are integers in thousandths of a gram (85.3 g = 85300), so that *)
(* round(x, 2) is a real conversion: it yields a multiple of 10.           *)
(* Time is in whole seconds.  Each worker thread of the web server has a   *)
(* frame th[t] holding the locals of the handler it is running and its     *)
(* position pc in the code.                                                *)
(***************************************************************************)
EXTENDS Integers, Sequences, FiniteSets

VARIABLES
    ser,                \* TRUE: the serial port was opened; FALSE: ser is None
    clock,              \* what time.time() returns
    last_weight,        \* global last_weight
    last_checked_time,  \* global last_checked_time
    file,               \* content of DATA_FILE
    th,                 \* per-thread frames
    log,                \* observer: outcomes of the channel operations of a direct sampler call
    prev,               \* observer: summary of the last completed status query
    entry,              \* observer: the cache fields when the current request was received
    lastRun,            \* observer: result of the most recent stable-sampling run
    lastAccepted,       \* observer: result of the most recent run that accepted a reading
    served              \* observer: number of requests received by the concurrent server

vars == <<ser, clock, last_weight, last_checked_time, file, th,
          log, prev, entry, lastRun, lastAccepted, served>>

----------------------------------------------------------------------------
(* Bounds of the model *)

NumThreads == 2         \* worker threads handling requests
MaxSamples == 3         \* largest samples argument of a direct get_stable_weight call
MaxTimeout == 2         \* largest timeout argument of a direct get_quick_weight call
MaxAttempts == 3        \* attempts observed of one direct get_quick_weight call
SamplerMaxClock == 3    \* the clock's range while samplers are called directly
CacheMaxClock == 12     \* the clock's range while only status queries are served
MaxClock == 7           \* the clock's range while all kinds of requests are served
MaxRequests == 2        \* requests received by the concurrent server

(* Program constants *)

Samples == 5            \* get_stable_weight(samples=5, ...)
QuickTimeout == 2       \* get_quick_weight(timeout=2)
Window == 5             \* now - last_checked_time > 5
BandLow == 10000        \* 10 < weight
BandHigh == 3000000     \* weight < 3000

Threads == 1..NumThreads

----------------------------------------------------------------------------
(* Lines the sensor can deliver, and float(line) *)

ReadFails == "#raise"   \* readline() or decode() raised

Numeric == {"-1.5", "0", "0.004", "5", "10", "10.01", "40", "85.3", "85.305", "2999.99", "3000"}

\* float(line.strip()): defined on Numeric, raises ValueError elsewhere
float(line) ==
    CASE line = "-1.5"    -> -1500
      [] line = "0"       -> 0
      [] line = "0.004"   -> 4
      [] line = "5"       -> 5000
      [] line = "10"      -> 10000
      [] line = "10.01"   -> 10010
      [] line = "40"      -> 40000
      [] line = "85.3"    -> 85300
      [] line = "85.305"  -> 85305
      [] line = "2999.99" -> 2999990
      [] line = "3000"    -> 3000000

Parses(line) == line \in Numeric

\* lines of a sensor exercised by direct sampler calls
SamplerLines == {"", "abc", "-1.5", "0", "0.004", "10", "10.01", "85.305", "2999.99", "3000"}
\* lines of the sensor behind the web application
WebLines == {"abc", "5", "85.3"}

\* round(num/den, 2): the multiples of 0.01 nearest to num/den.  On an exact
\* tie the binary value of the float decides, so either neighbour can result.
round(num, den) ==
    LET q == num \div (10 * den)
        r == num % (10 * den)
    IN  IF 2 * r < 10 * den THEN {10 * q}
        ELSE IF 2 * r > 10 * den THEN {10 * (q + 1)}
        ELSE {10 * q, 10 * (q + 1)}

RECURSIVE sum(_)
sum(s) == IF s = <<>> THEN 0 ELSE Head(s) + sum(Tail(s))

----------------------------------------------------------------------------
(* Values *)

None == [tag |-> "None", name |-> "", initial_weight |-> 0, threshold_percent |-> 0]

Record(name, weight, threshold) ==
    [tag |-> "dict", name |-> name, initial_weight |-> weight, threshold_percent |-> threshold]

NoReq == [kind |-> "none", name |-> "", threshold |-> 0]

\* a response; threshold is kept as initial_weight * threshold_percent, i.e. times 100
NoResp == [status |-> "none", weight |-> 0, threshold |-> 0, alert |-> FALSE, name |-> ""]

Redirect == [NoResp EXCEPT !.status = "redirect"]

ServerError == [NoResp EXCEPT !.status = "error"]

StatusKinds == {"GET /", "GET /current"}

Names == {"Cream", "Toner"}

Thresholds == {50, 100}

\* DATA_FILE: absent, or its text
Absent == [tag |-> "absent", name |-> "", initial_weight |-> 0, threshold_percent |-> 0]

\* the file just after open(DATA_FILE, 'w'), before the dump is flushed by close
Truncated == [tag |-> "truncated", name |-> "", initial_weight |-> 0, threshold_percent |-> 0]

\* text in the file that is not JSON
Garbage == [tag |-> "garbage", name |-> "", initial_weight |-> 0, threshold_percent |-> 0]

\* text in the file that is JSON but not an object, such as [1]
ArrayText == [tag |-> "array", name |-> "", initial_weight |-> 0, threshold_percent |-> 0]

\* json.dump(product, f, indent=2)
json_dump(product) ==
    [tag |-> "object", name |-> product.name, initial_weight |-> product.initial_weight,
     threshold_percent |-> product.threshold_percent]

\* json.load(f) succeeds on the text of a JSON value
Decodes(text) == text.tag \in {"object", "array"}

json_load(text) ==
    IF text.tag = "object"
      THEN Record(text.name, text.initial_weight, text.threshold_percent)
      ELSE [None EXCEPT !.tag = "list"]

\* truth value of `if product:`
Truthy(product) == product.tag \in {"dict", "list"}

IdleFrame ==
    [pc |-> "idle", ret |-> "idle", req |-> NoReq, product |-> None,
     now |-> 0, start |-> 0, param |-> 0, i |-> 0, values |-> <<>>,
     result |-> 0, lct |-> 0, ncalls |-> 0, resp |-> NoResp]

Set(t, f) == th' = [th EXCEPT ![t] = f]

----------------------------------------------------------------------------
(* The clock *)

Tick(limit) ==
    /\ clock < limit
    /\ clock' = clock + 1
    /\ UNCHANGED <<ser, last_weight, last_checked_time, file, th>>

----------------------------------------------------------------------------
(* get_stable_weight(samples, delay) *)

\* mutant: no test of ser
StableEnterUnguarded(t) ==
    /\ th[t].pc = "sw_enter"
    /\ Set(t, [th[t] EXCEPT !.pc = IF th[t].param > 0 THEN "sw_flush" ELSE "sw_return",
                            !.values = <<>>, !.i = 0, !.ncalls = @ + 1])
    /\ UNCHANGED <<ser, clock, last_weight, last_checked_time, file>>

\* entered with th[t].param = samples and th[t].ret = the caller's next position
StableEnter(t) ==
    /\ th[t].pc = "sw_enter"
    /\ IF ~ser
         THEN Set(t, [th[t] EXCEPT !.pc = th[t].ret, !.result = 0, !.ncalls = @ + 1])
         ELSE Set(t, [th[t] EXCEPT !.pc = IF th[t].param > 0 THEN "sw_flush" ELSE "sw_return",
                                   !.values = <<>>, !.i = 0, !.ncalls = @ + 1])
    /\ UNCHANGED <<ser, clock, last_weight, last_checked_time, file>>

\* ser.flushInput(); an exception skips the read of this attempt
StableFlush(t, ok) ==
    /\ th[t].pc = "sw_flush"
    /\ Set(t, [th[t] EXCEPT !.pc = IF ok THEN "sw_read" ELSE "sw_sleep"])
    /\ UNCHANGED <<ser, clock, last_weight, last_checked_time, file>>

\* mutant: the lower end of the band is accepted
InBandClosed(weight) == BandLow <= weight /\ weight < BandHigh

InBand(weight) == BandLow < weight /\ weight < BandHigh

\* mutant: a reading that is not accepted is retried at once, without the sleep
StableReadRetry(t, line) ==
    /\ th[t].pc = "sw_read"
    /\ IF Parses(line) /\ InBand(float(line))
         THEN Set(t, [th[t] EXCEPT !.pc = "sw_sleep", !.values = Append(@, float(line))])
         ELSE Set(t, [th[t] EXCEPT !.pc = "sw_flush"])
    /\ UNCHANGED <<ser, clock, last_weight, last_checked_time, file>>

\* weight = float(ser.readline().decode().strip()); append it when in the band
StableRead(t, line) ==
    /\ th[t].pc = "sw_read"
    /\ Set(t, [th[t] EXCEPT
                 !.pc = "sw_sleep",
                 !.values = IF Parses(line) /\ InBand(float(line))
                              THEN Append(@, float(line)) ELSE @])
    /\ UNCHANGED <<ser, clock, last_weight, last_checked_time, file>>

\* time.sleep(delay), then the next iteration of the for loop
StableSleep(t) ==
    /\ th[t].pc = "sw_sleep"
    /\ Set(t, [th[t] EXCEPT !.i = @ + 1,
                            !.pc = IF th[t].i + 1 < th[t].param THEN "sw_flush" ELSE "sw_return"])
    /\ UNCHANGED <<ser, clock, last_weight, last_checked_time, file>>

Average(values) == IF values = <<>> THEN {0} ELSE round(sum(values), Len(values))

StableReturn(t) ==
    /\ th[t].pc = "sw_return"
    /\ \E r \in Average(th[t].values) :
         Set(t, [th[t] EXCEPT !.pc = th[t].ret, !.result = r])
    /\ UNCHANGED <<ser, clock, last_weight, last_checked_time, file>>

----------------------------------------------------------------------------
(* get_quick_weight(timeout) *)

\* entered with th[t].param = timeout and th[t].ret = the caller's next position
QuickEnter(t) ==
    /\ th[t].pc = "qw_enter"
    /\ IF ~ser
         THEN Set(t, [th[t] EXCEPT !.pc = th[t].ret, !.result = 0, !.ncalls = @ + 1])
         ELSE Set(t, [th[t] EXCEPT !.pc = "qw_loop", !.start = clock, !.ncalls = @ + 1])
    /\ UNCHANGED <<ser, clock, last_weight, last_checked_time, file>>

\* while True: the deadline never looked at
QuickLoopForever(t) ==
    /\ th[t].pc = "qw_loop"
    /\ Set(t, [th[t] EXCEPT !.pc = "qw_flush"])
    /\ UNCHANGED <<ser, clock, last_weight, last_checked_time, file>>

\* while time.time() - start < timeout
QuickLoop(t) ==
    /\ th[t].pc = "qw_loop"
    /\ IF clock - th[t].start < th[t].param
         THEN Set(t, [th[t] EXCEPT !.pc = "qw_flush"])
         ELSE Set(t, [th[t] EXCEPT !.pc = th[t].ret, !.result = 0])
    /\ UNCHANGED <<ser, clock, last_weight, last_checked_time, file>>

QuickFlush(t, ok) ==
    /\ th[t].pc = "qw_flush"
    /\ Set(t, [th[t] EXCEPT !.pc = IF ok THEN "qw_read" ELSE "qw_loop"])
    /\ UNCHANGED <<ser, clock, last_weight, last_checked_time, file>>

\* if weight >= 0: a reading of zero accepted
PositiveOrZero(weight) == weight >= 0

Positive(weight) == weight > 0

QuickRead(t, line) ==
    /\ th[t].pc = "qw_read"
    /\ IF Parses(line) /\ Positive(float(line))
         THEN \E r \in round(float(line), 1) :
                Set(t, [th[t] EXCEPT !.pc = th[t].ret, !.result = r])
         ELSE Set(t, [th[t] EXCEPT !.pc = "qw_loop"])
    /\ UNCHANGED <<ser, clock, last_weight, last_checked_time, file>>

----------------------------------------------------------------------------
(* load_product() and save_product(product) *)

\* os.path.exists(DATA_FILE); entered with th[t].ret = the caller's next position
LoadExists(t) ==
    /\ th[t].pc = "lp_exists"
    /\ IF file = Absent
         THEN Set(t, [th[t] EXCEPT !.pc = th[t].ret, !.product = None])
         ELSE Set(t, [th[t] EXCEPT !.pc = "lp_open"])
    /\ UNCHANGED <<ser, clock, last_weight, last_checked_time, file>>

\* open(DATA_FILE, 'r') and json.load(f): only JSONDecodeError is caught
LoadRead(t) ==
    /\ th[t].pc = "lp_open"
    /\ IF file = Absent
         THEN Set(t, [th[t] EXCEPT !.pc = "done", !.resp = ServerError])
         ELSE IF Decodes(file)
           THEN Set(t, [th[t] EXCEPT !.pc = th[t].ret, !.product = json_load(file)])
           ELSE Set(t, [th[t] EXCEPT !.pc = th[t].ret, !.product = None])
    /\ UNCHANGED <<ser, clock, last_weight, last_checked_time, file>>

\* open(DATA_FILE, 'w') creates or truncates the file
SaveOpen(t) ==
    /\ th[t].pc = "sv_open"
    /\ file' = Truncated
    /\ Set(t, [th[t] EXCEPT !.pc = "sv_dump"])
    /\ UNCHANGED <<ser, clock, last_weight, last_checked_time>>

\* json.dump(product, f, indent=2), flushed when the with block closes f
SaveDump(t) ==
    /\ th[t].pc = "sv_dump"
    /\ file' = json_dump(th[t].product)
    /\ Set(t, [th[t] EXCEPT !.pc = "done", !.resp = Redirect])
    /\ UNCHANGED <<ser, clock, last_weight, last_checked_time>>

----------------------------------------------------------------------------
(* index() and current() *)

\* a handler that does not load the record
ReceiveNoLoad(t, kind, name, threshold) ==
    /\ th[t].pc = "idle"
    /\ Set(t, [IdleFrame EXCEPT !.pc = "dispatch", !.ret = "dispatch",
                                !.req = [kind |-> kind, name |-> name, threshold |-> threshold]])
    /\ UNCHANGED <<ser, clock, last_weight, last_checked_time, file>>

\* a request reaches a free worker; both handlers begin with product = load_product()
Receive(t, kind, name, threshold) ==
    /\ th[t].pc = "idle"
    /\ Set(t, [IdleFrame EXCEPT !.pc = "lp_exists", !.ret = "dispatch",
                                !.req = [kind |-> kind, name |-> name, threshold |-> threshold]])
    /\ UNCHANGED <<ser, clock, last_weight, last_checked_time, file>>

\* the branches on request.method and request.form
Dispatch(t) ==
    /\ th[t].pc = "dispatch"
    /\ CASE th[t].req.kind = "delete" ->
               Set(t, [th[t] EXCEPT !.pc = "del_exists"])
         [] th[t].req.kind = "update" ->
               Set(t, [th[t] EXCEPT !.pc = "lp_exists", !.ret = "upd_check"])
         [] th[t].req.kind = "register" ->
               Set(t, [th[t] EXCEPT !.pc = "qw_enter", !.ret = "reg_build",
                                    !.param = QuickTimeout])
         [] OTHER ->
               Set(t, [th[t] EXCEPT !.pc = "st_now"])
    /\ UNCHANGED <<ser, clock, last_weight, last_checked_time, file>>

\* os.remove(DATA_FILE) without the test of os.path.exists
DeleteExistsUnchecked(t) ==
    /\ th[t].pc = "del_exists"
    /\ Set(t, [th[t] EXCEPT !.pc = "del_remove"])
    /\ UNCHANGED <<ser, clock, last_weight, last_checked_time, file>>

\* if os.path.exists(DATA_FILE)
DeleteExists(t) ==
    /\ th[t].pc = "del_exists"
    /\ IF file = Absent
         THEN Set(t, [th[t] EXCEPT !.pc = "done", !.resp = Redirect])
         ELSE Set(t, [th[t] EXCEPT !.pc = "del_remove"])
    /\ UNCHANGED <<ser, clock, last_weight, last_checked_time, file>>

\* os.remove(DATA_FILE) raises when the file is gone
DeleteRemove(t) ==
    /\ th[t].pc = "del_remove"
    /\ IF file = Absent
         THEN /\ Set(t, [th[t] EXCEPT !.pc = "done", !.resp = ServerError])
              /\ UNCHANGED file
         ELSE /\ Set(t, [th[t] EXCEPT !.pc = "done", !.resp = Redirect])
              /\ file' = Absent
    /\ UNCHANGED <<ser, clock, last_weight, last_checked_time>>

\* the threshold saved whether or not a record was loaded
UpdateCheckCreate(t) ==
    /\ th[t].pc = "upd_check"
    /\ Set(t, [th[t] EXCEPT !.pc = "sv_open",
                            !.product = Record(th[t].product.name, th[t].product.initial_weight,
                                               th[t].req.threshold)])
    /\ UNCHANGED <<ser, clock, last_weight, last_checked_time, file>>

\* if product: product['threshold_percent'] = threshold
UpdateCheck(t) ==
    /\ th[t].pc = "upd_check"
    /\ IF ~Truthy(th[t].product)
         THEN Set(t, [th[t] EXCEPT !.pc = "done", !.resp = Redirect])
         ELSE IF th[t].product.tag = "dict"
           THEN Set(t, [th[t] EXCEPT !.pc = "sv_open",
                                     !.product.threshold_percent = th[t].req.threshold])
           ELSE Set(t, [th[t] EXCEPT !.pc = "done", !.resp = ServerError])
    /\ UNCHANGED <<ser, clock, last_weight, last_checked_time, file>>

\* the record loaded at the top of the handler patched, its initial_weight kept
RegisterBuildPatch(t) ==
    /\ th[t].pc = "reg_build"
    /\ Set(t, [th[t] EXCEPT !.pc = "sv_open",
                            !.product = Record(th[t].req.name,
                                               IF th[t].product.tag = "dict"
                                                 THEN th[t].product.initial_weight
                                                 ELSE th[t].result,
                                               th[t].req.threshold)])
    /\ UNCHANGED <<ser, clock, last_weight, last_checked_time, file>>

\* product = {'name': name, 'initial_weight': weight, 'threshold_percent': threshold}
RegisterBuild(t) ==
    /\ th[t].pc = "reg_build"
    /\ Set(t, [th[t] EXCEPT !.pc = "sv_open",
                            !.product = Record(th[t].req.name, th[t].result, th[t].req.threshold)])
    /\ UNCHANGED <<ser, clock, last_weight, last_checked_time, file>>

\* now = time.time()
StatusNow(t) ==
    /\ th[t].pc = "st_now"
    /\ Set(t, [th[t] EXCEPT !.pc = "st_check", !.now = clock])
    /\ UNCHANGED <<ser, clock, last_weight, last_checked_time, file>>

\* mutant: a gap of exactly 5 seconds counts as stale
StaleInclusive(now, checked) == now - checked >= Window

Stale(now, checked) == now - checked > Window

\* if now - last_checked_time > 5: ... get_stable_weight()
StatusCheck(t) ==
    /\ th[t].pc = "st_check"
    /\ IF Stale(th[t].now, last_checked_time)
         THEN Set(t, [th[t] EXCEPT !.pc = "sw_enter", !.ret = "st_store", !.param = Samples,
                                   !.lct = last_checked_time])
         ELSE Set(t, [th[t] EXCEPT !.pc = "st_read", !.lct = last_checked_time])
    /\ UNCHANGED <<ser, clock, last_weight, last_checked_time, file>>

\* mutant: a result of 0.0 is not stored
StoreWeightKeep(t) ==
    /\ th[t].pc = "st_store"
    /\ last_weight' = IF th[t].result = 0 THEN last_weight ELSE th[t].result
    /\ Set(t, [th[t] EXCEPT !.pc = "st_stamp"])
    /\ UNCHANGED <<ser, clock, last_checked_time, file>>

\* last_weight = <the value get_stable_weight returned>
StoreWeight(t) ==
    /\ th[t].pc = "st_store"
    /\ last_weight' = th[t].result
    /\ Set(t, [th[t] EXCEPT !.pc = "st_stamp"])
    /\ UNCHANGED <<ser, clock, last_checked_time, file>>

\* mutant: the time after sampling is stored instead of now
StoreTimeLate(t) ==
    /\ th[t].pc = "st_stamp"
    /\ last_checked_time' = clock
    /\ Set(t, [th[t] EXCEPT !.pc = "st_read"])
    /\ UNCHANGED <<ser, clock, last_weight, file>>

\* last_checked_time = now
StoreTime(t) ==
    /\ th[t].pc = "st_stamp"
    /\ last_checked_time' = th[t].now
    /\ Set(t, [th[t] EXCEPT !.pc = "st_read"])
    /\ UNCHANGED <<ser, clock, last_weight, file>>

\* alert = current_weight < initial_weight * (threshold_percent / 100)
\* initial_weight * (threshold_percent / 100) is a product of binary floats.
\* For the weights and percentages of this model it is the float nearest the
\* decimal product, except 13.0 * (90 / 100) = 11.700000000000001, which lies
\* above 11.7.
ProductRoundsUp(initial_weight, threshold_percent) ==
    <<initial_weight, threshold_percent>> = <<13000, 90>>

\* current_weight < threshold_weight, current_weight a multiple of 0.01
Alert(product, current_weight) ==
    LET decimal == product.initial_weight * product.threshold_percent IN
    \/ current_weight * 100 < decimal
    \/ /\ current_weight * 100 = decimal
       /\ ProductRoundsUp(product.initial_weight, product.threshold_percent)

\* current_weight = last_weight, the alert, and the response
StatusRead(t) ==
    /\ th[t].pc = "st_read"
    /\ LET product == th[t].product IN
       IF ~Truthy(product)
         THEN Set(t, [th[t] EXCEPT !.pc = "done",
                        !.resp = [NoResp EXCEPT !.status = "ok", !.weight = last_weight]])
         ELSE IF product.tag = "dict"
           THEN Set(t, [th[t] EXCEPT !.pc = "done",
                          !.resp = [status |-> "ok", weight |-> last_weight,
                                    threshold |-> product.initial_weight * product.threshold_percent,
                                    alert |-> Alert(product, last_weight),
                                    name |-> product.name]])
           ELSE Set(t, [th[t] EXCEPT !.pc = "done", !.resp = ServerError])
    /\ UNCHANGED <<ser, clock, last_weight, last_checked_time, file>>

\* the response is sent and the worker is free again
Respond(t) ==
    /\ th[t].pc = "done"
    /\ Set(t, IdleFrame)
    /\ UNCHANGED <<ser, clock, last_weight, last_checked_time, file>>

----------------------------------------------------------------------------
(* Direct calls of the samplers by one caller, with the channel observed *)

Main == CHOOSE t \in Threads : \A u \in Threads : t <= u

Ev(op, out) == [op |-> op, out |-> out]

NoQuery == [now |-> 0, refreshed |-> FALSE, weight |-> 0, ncalls |-> 0, valid |-> FALSE]

Flushes(events) == Len(SelectSeq(events, LAMBDA e : e.op = "flush"))

Reads(events) == SelectSeq(events, LAMBDA e : e.op = "read")

Sleeps(events) == Len(SelectSeq(events, LAMBDA e : e.op = "sleep"))

Quiet == UNCHANGED <<log, prev, entry, lastRun, lastAccepted, served>>

Logged(e) == log' = Append(log, e) /\ UNCHANGED <<prev, entry, lastRun, lastAccepted, served>>

\* get_stable_weight(samples)
CallStable(t, samples) ==
    /\ th[t].pc = "idle"
    /\ Set(t, [IdleFrame EXCEPT !.pc = "sw_enter", !.ret = "done", !.param = samples,
                                !.req = [NoReq EXCEPT !.kind = "stable"]])
    /\ UNCHANGED <<ser, clock, last_weight, last_checked_time, file>>

\* get_quick_weight(timeout); the clock can still run past the deadline
CallQuick(t, timeout, limit) ==
    /\ th[t].pc = "idle"
    /\ clock + timeout <= limit
    /\ Set(t, [IdleFrame EXCEPT !.pc = "qw_enter", !.ret = "done", !.param = timeout,
                                !.req = [NoReq EXCEPT !.kind = "quick"]])
    /\ UNCHANGED <<ser, clock, last_weight, last_checked_time, file>>

InitObservers ==
    /\ log = <<>>
    /\ prev = NoQuery
    /\ entry = <<0, 0, Absent>>
    /\ lastRun = -1
    /\ lastAccepted = -1
    /\ served = 0

InitProgram ==
    /\ ser \in BOOLEAN
    /\ last_weight = 0
    /\ last_checked_time = 0
    /\ file = Absent
    /\ th = [t \in Threads |-> IdleFrame]

InitSampler == InitProgram /\ InitObservers /\ clock = 0

NextSampler ==
    \/ \E n \in 1..MaxSamples : CallStable(Main, n) /\ log' = <<>>
                                   /\ UNCHANGED <<prev, entry, lastRun, lastAccepted, served>>
    \/ \E d \in 1..MaxTimeout : CallQuick(Main, d, SamplerMaxClock) /\ log' = <<>>
                                   /\ UNCHANGED <<prev, entry, lastRun, lastAccepted, served>>
    \/ StableEnter(Main) /\ Quiet
    \/ \E ok \in BOOLEAN : StableFlush(Main, ok) /\ Logged(Ev("flush", IF ok THEN "ok" ELSE ReadFails))
    \/ \E line \in SamplerLines \cup {ReadFails} : StableRead(Main, line) /\ Logged(Ev("read", line))
    \/ StableSleep(Main) /\ Logged(Ev("sleep", ""))
    \/ StableReturn(Main) /\ Quiet
    \/ QuickEnter(Main) /\ Quiet
    \/ QuickLoop(Main) /\ Quiet
    \/ \E ok \in BOOLEAN : /\ Flushes(log) < MaxAttempts
                           /\ QuickFlush(Main, ok)
                           /\ Logged(Ev("flush", IF ok THEN "ok" ELSE ReadFails))
    \/ \E line \in SamplerLines \cup {ReadFails} : QuickRead(Main, line) /\ Logged(Ev("read", line))
    \/ Respond(Main) /\ Quiet
    \/ Tick(SamplerMaxClock) /\ Quiet

SpecSampler == InitSampler /\ [][NextSampler]_vars

\* Direct sampler calls with no record of the channel events kept.  A call in
\* progress keeps taking steps (each flush, read and sleep returns) and
\* time.time() keeps advancing.
SamplerStep(t) ==
    \/ StableEnter(t)
    \/ \E ok \in BOOLEAN : StableFlush(t, ok)
    \/ \E line \in SamplerLines \cup {ReadFails} : StableRead(t, line)
    \/ StableSleep(t)
    \/ StableReturn(t)
    \/ QuickEnter(t)
    \/ QuickLoop(t)
    \/ \E ok \in BOOLEAN : QuickFlush(t, ok)
    \/ \E line \in SamplerLines \cup {ReadFails} : QuickRead(t, line)

\* time.time() advancing; the bound on the clock stays beyond the deadline of
\* a get_quick_weight call that has not yet read its start time
LiveTick ==
    /\ th[Main].pc = "qw_enter" => clock + th[Main].param < SamplerMaxClock
    /\ Tick(SamplerMaxClock)

NextLive ==
    \/ \E n \in 1..MaxSamples : CallStable(Main, n) /\ Quiet
    \/ \E d \in 1..MaxTimeout : CallQuick(Main, d, SamplerMaxClock) /\ Quiet
    \/ StableEnter(Main) /\ Quiet
    \/ \E ok \in BOOLEAN : StableFlush(Main, ok) /\ Quiet
    \/ \E line \in SamplerLines \cup {ReadFails} : StableRead(Main, line) /\ Quiet
    \/ StableSleep(Main) /\ Quiet
    \/ StableReturn(Main) /\ Quiet
    \/ QuickEnter(Main) /\ Quiet
    \/ QuickLoop(Main) /\ Quiet
    \/ \E ok \in BOOLEAN : QuickFlush(Main, ok) /\ Quiet
    \/ \E line \in SamplerLines \cup {ReadFails} : QuickRead(Main, line) /\ Quiet
    \/ Respond(Main) /\ Quiet
    \/ LiveTick /\ Quiet

SpecLive ==
    /\ InitSampler
    /\ [][NextLive]_vars
    /\ WF_vars(SamplerStep(Main) /\ Quiet)
    /\ WF_vars(LiveTick /\ Quiet)

----------------------------------------------------------------------------
(* The web application *)

Requests ==
    {[kind |-> k, name |-> "", threshold |-> 0] : k \in StatusKinds \cup {"delete"}}
    \cup {[kind |-> "update", name |-> "", threshold |-> p] : p \in Thresholds}
    \cup {[kind |-> "register", name |-> n, threshold |-> p] : n \in Names, p \in Thresholds}

\* a request is accepted while its handler can still run to its deadline
Accept(t, r, limit) ==
    /\ r.kind = "register" => clock + QuickTimeout <= limit
    /\ Receive(t, r.kind, r.name, r.threshold)

Started(t) == th[t].pc = "idle" /\ th'[t].pc # "idle"

Finished(t) == th[t].pc = "done" /\ th'[t].pc = "idle"

\* get_stable_weight returns to its caller in this step
RunEnds(t) == th[t].pc \in {"sw_enter", "sw_return"} /\ th'[t].pc = th[t].ret

Summary(f) ==
    [now |-> f.now, refreshed |-> f.ncalls > 0, weight |-> f.resp.weight,
     ncalls |-> f.ncalls, valid |-> TRUE]

\* the observers of the status queries
Monitor ==
    /\ UNCHANGED <<log, served>>
    /\ entry' = IF \E t \in Threads : Started(t) /\ th'[t].req.kind \in StatusKinds
                  THEN <<last_weight, last_checked_time, file>> ELSE entry
    /\ prev' = IF \E t \in Threads : Finished(t) /\ th[t].req.kind \in StatusKinds
                 THEN Summary(th[CHOOSE t \in Threads : Finished(t)]) ELSE prev
    /\ lastRun' = IF \E t \in Threads : RunEnds(t)
                    THEN th'[CHOOSE t \in Threads : RunEnds(t)].result ELSE lastRun
    /\ lastAccepted' = IF \E t \in Threads : RunEnds(t) /\ th[t].pc = "sw_return"
                                                /\ th[t].values # <<>>
                         THEN th'[CHOOSE t \in Threads : RunEnds(t)].result ELSE lastAccepted

\* status queries served one after the other, observed
InitCache == InitProgram /\ InitObservers /\ clock \in 0..CacheMaxClock

NextCache ==
    \/ \E k \in StatusKinds : Receive(Main, k, "", 0) /\ Monitor
    \/ LoadExists(Main) /\ Monitor
    \/ Dispatch(Main) /\ Monitor
    \/ StatusNow(Main) /\ Monitor
    \/ StatusCheck(Main) /\ Monitor
    \/ StoreWeight(Main) /\ Monitor
    \/ StoreTime(Main) /\ Monitor
    \/ StatusRead(Main) /\ Monitor
    \/ Respond(Main) /\ Monitor
    \/ StableEnter(Main) /\ Monitor
    \/ \E ok \in BOOLEAN : StableFlush(Main, ok) /\ Monitor
    \/ \E line \in WebLines \cup {ReadFails} : StableRead(Main, line) /\ Monitor
    \/ StableSleep(Main) /\ Monitor
    \/ StableReturn(Main) /\ Monitor
    \/ Tick(CacheMaxClock) /\ Monitor

SpecCache == InitCache /\ [][NextCache]_vars

\* the observers of requests served one after the other: the cache and the
\* file when the request in progress was received, and the request completed last
Track ==
    /\ UNCHANGED <<prev, lastRun, lastAccepted, served>>
    /\ entry' = IF Started(Main) THEN <<last_weight, last_checked_time, file>> ELSE entry
    /\ log' = IF Finished(Main) THEN <<Ev(th[Main].req.kind, th[Main].resp.status)>> ELSE log

\* requests of all kinds served one after the other
InitSeq == InitProgram /\ InitObservers /\ clock \in 0..MaxClock

NextSeq ==
    \/ \E r \in Requests : Accept(Main, r, MaxClock) /\ Track
    \/ LoadExists(Main) /\ Track
    \/ LoadRead(Main) /\ Track
    \/ SaveOpen(Main) /\ Track
    \/ SaveDump(Main) /\ Track
    \/ Dispatch(Main) /\ Track
    \/ DeleteExists(Main) /\ Track
    \/ DeleteRemove(Main) /\ Track
    \/ UpdateCheck(Main) /\ Track
    \/ RegisterBuild(Main) /\ Track
    \/ StatusNow(Main) /\ Track
    \/ StatusCheck(Main) /\ Track
    \/ StoreWeight(Main) /\ Track
    \/ StoreTime(Main) /\ Track
    \/ StatusRead(Main) /\ Track
    \/ Respond(Main) /\ Track
    \/ StableEnter(Main) /\ Track
    \/ \E ok \in BOOLEAN : StableFlush(Main, ok) /\ Track
    \/ \E line \in WebLines \cup {ReadFails} : StableRead(Main, line) /\ Track
    \/ StableSleep(Main) /\ Track
    \/ StableReturn(Main) /\ Track
    \/ QuickEnter(Main) /\ Track
    \/ QuickLoop(Main) /\ Track
    \/ \E ok \in BOOLEAN : QuickFlush(Main, ok) /\ Track
    \/ \E line \in WebLines \cup {ReadFails} : QuickRead(Main, line) /\ Track
    \/ Tick(MaxClock) /\ Track

SpecSeq == InitSeq /\ [][NextSeq]_vars

\* Status queries against a file and a cached weight left by earlier requests,
\* all within the window of the sample that filled the cache.
StoredWeights == {13000, 100000}

StoredThresholds == {30, 90}

CachedWeights == {0, 11700, 29900, 30000}

StoredFiles ==
    {Absent, Garbage, ArrayText}
    \cup {json_dump(Record(n, w, p)) : n \in {"Cream"}, w \in StoredWeights, p \in StoredThresholds}

InitStored ==
    /\ InitObservers
    /\ ser = TRUE
    /\ file \in StoredFiles
    /\ last_weight \in CachedWeights
    /\ clock \in 0..Window
    /\ last_checked_time \in 0..clock
    /\ th = [t \in Threads |-> IdleFrame]

NextStored ==
    \/ \E k \in StatusKinds : Receive(Main, k, "", 0) /\ Quiet
    \/ LoadExists(Main) /\ Quiet
    \/ LoadRead(Main) /\ Quiet
    \/ Dispatch(Main) /\ Quiet
    \/ StatusNow(Main) /\ Quiet
    \/ StatusCheck(Main) /\ Quiet
    \/ StatusRead(Main) /\ Quiet
    \/ Respond(Main) /\ Quiet

SpecStored == InitStored /\ [][NextStored]_vars

\* a request is handed to the first worker that is free
FirstFree(t) == th[t].pc = "idle" /\ \A u \in Threads : th[u].pc = "idle" => t <= u

\* requests served concurrently by the worker threads
Init == InitProgram /\ InitObservers /\ clock \in 0..MaxClock

Next ==
    \/ /\ served < MaxRequests
       /\ \E t \in Threads, r \in Requests : FirstFree(t) /\ Accept(t, r, MaxClock)
       /\ served' = served + 1
       /\ UNCHANGED <<log, prev, entry, lastRun, lastAccepted>>
    \/ \E t \in Threads : LoadExists(t) /\ Quiet
    \/ \E t \in Threads : LoadRead(t) /\ Quiet
    \/ \E t \in Threads : SaveOpen(t) /\ Quiet
    \/ \E t \in Threads : SaveDump(t) /\ Quiet
    \/ \E t \in Threads : Dispatch(t) /\ Quiet
    \/ \E t \in Threads : DeleteExists(t) /\ Quiet
    \/ \E t \in Threads : DeleteRemove(t) /\ Quiet
    \/ \E t \in Threads : UpdateCheck(t) /\ Quiet
    \/ \E t \in Threads : RegisterBuild(t) /\ Quiet
    \/ \E t \in Threads : StatusNow(t) /\ Quiet
    \/ \E t \in Threads : StatusCheck(t) /\ Quiet
    \/ \E t \in Threads : StoreWeight(t) /\ Quiet
    \/ \E t \in Threads : StoreTime(t) /\ Quiet
    \/ \E t \in Threads : StatusRead(t) /\ Quiet
    \/ \E t \in Threads : Respond(t) /\ Quiet
    \/ \E t \in Threads : StableEnter(t) /\ Quiet
    \/ \E t \in Threads, ok \in BOOLEAN : StableFlush(t, ok) /\ Quiet
    \/ \E t \in Threads, line \in WebLines \cup {ReadFails} : StableRead(t, line) /\ Quiet
    \/ \E t \in Threads : StableSleep(t) /\ Quiet
    \/ \E t \in Threads : StableReturn(t) /\ Quiet
    \/ \E t \in Threads : QuickEnter(t) /\ Quiet
    \/ \E t \in Threads : QuickLoop(t) /\ Quiet
    \/ \E t \in Threads, ok \in BOOLEAN : QuickFlush(t, ok) /\ Quiet
    \/ \E t \in Threads, line \in WebLines \cup {ReadFails} : QuickRead(t, line) /\ Quiet
    \/ Tick(MaxClock) /\ Quiet

Spec == Init /\ [][Next]_vars

\* Status, update and delete requests served concurrently on a stored record,
\* within the window of the sample that filled the cache
RaceRequests == {r \in Requests : r.kind # "register"}

InitRace ==
    /\ InitObservers
    /\ ser = TRUE
    /\ file = json_dump(Record("Cream", 100000, 30))
    /\ last_weight = 29900
    /\ last_checked_time = 0
    /\ clock = 0
    /\ th = [t \in Threads |-> IdleFrame]

NextRace ==
    \/ \E t \in Threads, r \in RaceRequests :
           FirstFree(t) /\ Receive(t, r.kind, r.name, r.threshold) /\ Quiet
    \/ \E t \in Threads : LoadExists(t) /\ Quiet
    \/ \E t \in Threads : LoadRead(t) /\ Quiet
    \/ \E t \in Threads : SaveOpen(t) /\ Quiet
    \/ \E t \in Threads : SaveDump(t) /\ Quiet
    \/ \E t \in Threads : Dispatch(t) /\ Quiet
    \/ \E t \in Threads : DeleteExists(t) /\ Quiet
    \/ \E t \in Threads : DeleteRemove(t) /\ Quiet
    \/ \E t \in Threads : UpdateCheck(t) /\ Quiet
    \/ \E t \in Threads : StatusNow(t) /\ Quiet
    \/ \E t \in Threads : StatusCheck(t) /\ Quiet
    \/ \E t \in Threads : StatusRead(t) /\ Quiet
    \/ \E t \in Threads : Respond(t) /\ Quiet

SpecRace == InitRace /\ [][NextRace]_vars

----------------------------------------------------------------------------
(* Properties of the samplers, stated on the observed channel *)

\* a direct call of the named sampler has returned and its result is in the frame
Returned(kind) == th[Main].pc = "done" /\ th[Main].req.kind = kind

\* the number of attempts the events are made of, each a flush, a read unless
\* the flush raised, and a sleep; -1 when the events have no such shape
RECURSIVE AttemptsOf(_)
AttemptsOf(events) ==
    IF events = <<>> THEN 0
    ELSE LET n == Len(events)
             used == IF n >= 3 /\ events[1] = Ev("flush", "ok") /\ events[2].op = "read"
                             /\ events[3].op = "sleep" THEN 3
                     ELSE IF n >= 2 /\ events[1] = Ev("flush", ReadFails)
                             /\ events[2].op = "sleep" THEN 2
                     ELSE 0
             rest == IF used = 0 THEN -1 ELSE AttemptsOf(SubSeq(events, used + 1, n))
         IN  IF rest < 0 THEN -1 ELSE rest + 1

\* the values of the lines read that are numbers strictly between 10 and 3000
AcceptedOf(events) ==
    LET good == SelectSeq(Reads(events),
                          LAMBDA e : e.out \in Numeric
                                     /\ float(e.out) \in (BandLow + 1)..(BandHigh - 1))
    IN  [k \in 1..Len(good) |-> float(good[k].out)]

LinesRead(events) == {Reads(events)[k].out : k \in 1..Len(Reads(events))}

\* C8 as stated: with the sensor present get_stable_weight(samples=N) performs
\* N flushes, N line reads and N sleeps, whatever the attempts' outcomes.
C8_ExactlyNReads ==
    (Returned("stable") /\ ser) =>
        /\ Flushes(log) = th[Main].param
        /\ Len(Reads(log)) = th[Main].param
        /\ Sleeps(log) = th[Main].param

\* C8 amended: with the sensor present get_stable_weight(samples=N) performs
\* exactly N attempts, each one flush, then one line read unless the flush
\* raised, then one sleep.
C8_ExactlyNAttempts ==
    (Returned("stable") /\ ser) =>
        /\ AttemptsOf(log) = th[Main].param
        /\ Flushes(log) = th[Main].param
        /\ Sleeps(log) = th[Main].param

C8_Witness ==
    /\ Returned("stable") /\ ser
    /\ th[Main].param = MaxSamples
    /\ Ev("flush", ReadFails) \in {log[k] : k \in 1..Len(log)}
    /\ "abc" \in LinesRead(log)
    /\ Len(th[Main].values) = 1

\* C9: the result of get_stable_weight is the mean, rounded to 2 decimals, of
\* exactly the lines read that parse to a value strictly between 10 and 3000.
C9_MeanOfBand ==
    (Returned("stable") /\ ser) =>
        LET accepted == AcceptedOf(log) IN
        /\ th[Main].values = accepted
        /\ accepted # <<>> => th[Main].result \in round(sum(accepted), Len(accepted))

C9_Witness ==
    /\ Returned("stable") /\ ser
    /\ LinesRead(log) = {"10", "10.01", "3000"}
    /\ th[Main].result = 10010

\* C10: with the sensor absent both samplers return 0.0 without touching the
\* channel; get_stable_weight returns 0.0 when no attempt yields a value in
\* the band; no sampler call ends in an error.
C10_FailuresAbsorbed ==
    th[Main].pc = "done" =>
        /\ ~ser => th[Main].result = 0 /\ log = <<>>
        /\ (th[Main].req.kind = "stable" /\ AcceptedOf(log) = <<>>) => th[Main].result = 0
        /\ th[Main].resp # ServerError

C10_Witness ==
    /\ Returned("stable") /\ ser
    /\ th[Main].param = MaxSamples
    /\ LinesRead(log) = {ReadFails, "abc"}
    /\ Ev("flush", ReadFails) \in {log[k] : k \in 1..Len(log)}
    /\ th[Main].result = 0

----------------------------------------------------------------------------
(* Properties of the cache, stated on status queries served one after the other *)

\* thread t has computed the response of a status query and not yet sent it
Answered(t) ==
    th[t].pc = "done" /\ th[t].req.kind \in StatusKinds /\ th[t].resp.status = "ok"

\* C1: a status query at most 5 seconds after a status query that refreshed
\* the cache returns the weight that one returned, and get_stable_weight is
\* invoked at most once across the two.
C1_CachedWithinWindow ==
    \A t \in Threads :
        (Answered(t) /\ prev.valid /\ prev.refreshed
           /\ prev.now <= th[t].now /\ th[t].now - prev.now <= Window) =>
            /\ th[t].resp.weight = prev.weight
            /\ prev.ncalls + th[t].ncalls <= 1

C1_Witness ==
    \E t \in Threads :
        /\ Answered(t) /\ prev.valid /\ prev.refreshed
        /\ th[t].now - prev.now = Window
        /\ prev.weight = 85300
        /\ th[t].resp.weight = 85300

\* C4: a status query more than 5 seconds after last_checked_time invokes
\* get_stable_weight exactly once, stores its result and its own now, and
\* returns that result; a query with a gap of 5 seconds or less does not
\* sample and leaves both cache fields unchanged.
C4_RefreshWhenStale ==
    \A t \in Threads :
        Answered(t) =>
            IF th[t].now - entry[2] > Window
              THEN /\ th[t].ncalls = 1
                   /\ last_weight = th[t].result
                   /\ last_checked_time = th[t].now
                   /\ th[t].resp.weight = th[t].result
              ELSE /\ th[t].ncalls = 0
                   /\ last_weight = entry[1]
                   /\ last_checked_time = entry[2]
                   /\ th[t].resp.weight = entry[1]

C4_Witness ==
    \E t \in Threads :
        /\ Answered(t)
        /\ entry[2] > 0 /\ entry[1] = 0
        /\ th[t].now - entry[2] = Window + 1
        /\ th[t].resp.weight = 85300

\* C5: the first status query after process start invokes get_stable_weight,
\* whatever its timestamp.
C5_FirstQuerySamples ==
    \A t \in Threads : (Answered(t) /\ ~prev.valid) => th[t].ncalls = 1

\* C6 as stated: after any sequence of status queries the cached weight is the
\* result of the most recent stable-sampling run that accepted a reading.
C6_LastAcceptedKept ==
    (\A t \in Threads : th[t].pc = "idle") /\ lastAccepted >= 0 => last_weight = lastAccepted

\* C6 amended: after any sequence of status queries the cached weight is the
\* result of the most recent stable-sampling run, which is 0.0 when that run
\* accepted no reading.
C6_LastRunKept ==
    (\A t \in Threads : th[t].pc = "idle") =>
        last_weight = IF lastRun >= 0 THEN lastRun ELSE 0

C6_Witness ==
    /\ \A t \in Threads : th[t].pc = "idle"
    /\ lastAccepted = 85300
    /\ lastRun = 0
    /\ last_weight = 0

----------------------------------------------------------------------------
(* Properties of the record and of concurrent requests *)

\* C7: every record persisted by registration has initial_weight > 0.
C7_PositiveInitialWeight ==
    file.tag = "object" => file.initial_weight > 0

\* both threads are serving status queries that found the same
\* last_checked_time stale
SameStaleWindow(t, u) ==
    /\ t # u
    /\ th[t].req.kind \in StatusKinds /\ th[u].req.kind \in StatusKinds
    /\ th[t].pc \notin {"lp_exists", "lp_open", "dispatch", "st_now", "st_check"}
    /\ th[u].pc \notin {"lp_exists", "lp_open", "dispatch", "st_now", "st_check"}
    /\ th[t].lct = th[u].lct
    /\ Stale(th[t].now, th[t].lct) /\ Stale(th[u].now, th[u].lct)

\* C2: of two status requests handled concurrently that arrive in the same
\* stale window at most one invokes get_stable_weight.
C2_OneRefreshPerWindow ==
    \A t, u \in Threads : SameStaleWindow(t, u) => th[t].ncalls + th[u].ncalls <= 1

\* thread t has flushed the channel and not yet read its line
InSequence(t) == th[t].pc \in {"sw_read", "qw_read"}

\* C3: at most one flush/read sequence is in progress on the serial channel.
C3_ChannelExclusive ==
    \A t, u \in Threads : (InSequence(t) /\ InSequence(u)) => t = u

----------------------------------------------------------------------------
(* Properties of get_quick_weight, stated on direct calls *)

\* positions, among the lines read, of those that parse to a value above 0
PositiveReads(events) ==
    {k \in 1..Len(Reads(events)) :
        Reads(events)[k].out \in Numeric /\ float(Reads(events)[k].out) > 0}

\* C11 as stated: with the sensor present get_quick_weight returns the first
\* line read that parses to a value above 0, rounded to 2 decimals, reads
\* nothing after it, and returns 0.0 if and only if no such line was read.
C11_ZeroIffNoPositive ==
    (Returned("quick") /\ ser) =>
        LET rd  == Reads(log)
            pos == PositiveReads(log) IN
        /\ pos # {} => /\ pos = {Len(rd)}
                       /\ th[Main].result \in round(float(rd[Len(rd)].out), 1)
        /\ th[Main].result = 0 <=> pos = {}

\* C11 amended: with the sensor present get_quick_weight returns the first
\* line read that parses to a value above 0, rounded to 2 decimals (which is
\* 0.0 for a value below 0.005), and reads nothing after it; when no such line
\* was read it returns 0.0, and only once timeout seconds have elapsed.
C11_FirstValidWins ==
    (Returned("quick") /\ ser) =>
        LET rd  == Reads(log)
            pos == PositiveReads(log) IN
        IF pos = {}
          THEN /\ th[Main].result = 0
               /\ clock - th[Main].start >= th[Main].param
          ELSE /\ pos = {Len(rd)}
               /\ th[Main].result \in round(float(rd[Len(rd)].out), 1)

C11_Witness ==
    /\ Returned("quick") /\ ser
    /\ Len(Reads(log)) = MaxAttempts
    /\ {"0", "-1.5"} \subseteq LinesRead(log)
    /\ Reads(log)[MaxAttempts].out = "85.305"
    /\ th[Main].result = 85310

----------------------------------------------------------------------------
(* Termination of the samplers *)

InSampler(t) == th[t].pc \in {"sw_enter", "sw_flush", "sw_read", "sw_sleep", "sw_return",
                              "qw_enter", "qw_loop", "qw_flush", "qw_read"}

\* C12: every call of get_quick_weight or get_stable_weight eventually
\* returns, whatever the sensor delivers and whichever flushes and reads
\* raise, provided the clock advances and each channel operation returns.
C12_SamplerReturns == InSampler(Main) ~> (th[Main].pc = "done")

C12_Witness ==
    /\ Returned("quick") /\ ser
    /\ th[Main].param = MaxTimeout
    /\ th[Main].result = 0
    /\ clock - th[Main].start >= th[Main].param

----------------------------------------------------------------------------
(* Properties of the status response, stated on queries against stored data *)

\* C13: in every status response alert is true if and only if a record exists
\* and the current weight is strictly below initial_weight * threshold_percent
\* / 100; with no record alert is false and the threshold is 0; a weight
\* equal to the threshold weight gives alert = false.
C13_AlertIffBelowThreshold ==
    \A t \in Threads : Answered(t) =>
        LET r == th[t].resp IN
        /\ r.alert <=> /\ file.tag = "object"
                       /\ r.weight * 100 < file.initial_weight * file.threshold_percent
        /\ file.tag # "object" => ~r.alert /\ r.threshold = 0

\* C16: a stored file that is not JSON, or is JSON but not a record, is
\* treated by a status query like an absent record: the query completes with
\* alert = false and no product name, and not in an error.
C16_CorruptLikeAbsent ==
    \A t \in Threads :
        (th[t].pc = "done" /\ th[t].req.kind \in StatusKinds /\ file.tag \notin {"absent", "object"}) =>
            /\ th[t].resp.status = "ok"
            /\ ~th[t].resp.alert
            /\ th[t].resp.name = ""

----------------------------------------------------------------------------
(* Properties of the stored record, stated on requests served one after the other *)

\* the file when the request in progress was received
Before == entry[3]

Completed(kind) == th[Main].pc = "done" /\ th[Main].req.kind = kind

\* C14: an update of the threshold changes only threshold_percent of an
\* existing record, keeping its name and initial_weight; with no record it
\* leaves the store empty; initial_weight of a record changes only through a
\* registration.
C14_UpdateOnlyThreshold ==
    /\ (Completed("update") /\ Before.tag = "object") =>
           file = [Before EXCEPT !.threshold_percent = th[Main].req.threshold]
    /\ (Completed("update") /\ Before = Absent) => file = Absent
    /\ (th[Main].pc = "done" /\ th[Main].req.kind # "register" /\ file.tag = "object") =>
           Before.tag = "object" /\ file.initial_weight = Before.initial_weight

C14_Witness ==
    /\ Completed("update")
    /\ Before = json_dump(Record("Cream", 85300, 50))
    /\ th[Main].req.threshold = 100
    /\ file = json_dump(Record("Cream", 85300, 100))
    /\ th[Main].resp = Redirect

\* C15: a registration calls get_quick_weight exactly once and leaves the
\* store holding exactly the submitted name, that call's result and the
\* submitted threshold, whatever record was stored before.
C15_RegisterReplaces ==
    Completed("register") =>
        /\ th[Main].ncalls = 1
        /\ file = json_dump(Record(th[Main].req.name, th[Main].result, th[Main].req.threshold))

C15_Witness ==
    /\ Completed("register")
    /\ Before = json_dump(Record("Toner", 5000, 100))
    /\ th[Main].req.name = "Cream" /\ th[Main].req.threshold = 50
    /\ th[Main].result = 85300
    /\ file = json_dump(Record("Cream", 85300, 50))

\* C18: after a delete no record is stored; a delete of an empty store leaves
\* it empty and completes without error; a status query on the empty store
\* reports alert = false.
C18_DeleteIdempotent ==
    /\ Completed("delete") => file = Absent /\ th[Main].resp = Redirect
    /\ (th[Main].pc = "done" /\ th[Main].req.kind \in StatusKinds /\ file = Absent) =>
           th[Main].resp.status = "ok" /\ ~th[Main].resp.alert

C18_Witness ==
    /\ Completed("delete")
    /\ log = <<Ev("delete", "redirect")>>
    /\ Before = Absent /\ file = Absent
    /\ th[Main].resp = Redirect

\* C19: every status response is derived from the record stored when the
\* query is served and the cached weight, also when the query falls inside
\* the window and takes no sample.
C19_AlertFromStoredRecord ==
    Answered(Main) =>
        LET r == th[Main].resp IN
        /\ r.weight = last_weight
        /\ IF file.tag = "object"
             THEN /\ r.name = file.name
                  /\ r.threshold = file.initial_weight * file.threshold_percent
                  /\ r.alert = Alert(json_load(file), last_weight)
             ELSE r.name = "" /\ r.threshold = 0 /\ ~r.alert

C19_Witness ==
    /\ Answered(Main)
    /\ log = <<Ev("update", "redirect")>>
    /\ th[Main].ncalls = 0
    /\ th[Main].resp.weight = 85300
    /\ Before = json_dump(Record("Cream", 85300, 100))
    /\ th[Main].resp.threshold = 85300 * 100

----------------------------------------------------------------------------
(* Properties of the stored record under concurrent requests *)

\* a worker is rewriting, for an update of the threshold, the record it loaded
Rewriting(u) == th[u].req.kind = "update" /\ th[u].pc = "sv_dump"

\* C17: a status query that reads the file while an update of the threshold
\* is writing it obtains a complete record, the one before the write or the
\* one after it; it obtains no partial record and does not find it absent.
C17_ReaderSeesWholeRecord ==
    [][\A t \in Threads :
          (/\ th[t].req.kind \in StatusKinds
           /\ th[t].pc = "lp_open" /\ th'[t].pc # "lp_open"
           /\ \E u \in Threads \ {t} : Rewriting(u))
          => th'[t].product.tag = "dict"]_vars

RegisterInProgress == \E t \in Threads : th[t].req.kind = "register"

\* C20: an update of the threshold never brings a record back: once the
\* store is empty after a delete it stays empty while no registration is in
\* progress, also when an update that began before the delete saves after it.
C20_UpdateNeverRestores ==
    [][(file = Absent /\ ~RegisterInProgress) => file' = Absent]_vars

====
